---- MODULE Spec2Model ----
(***************************************************************************)
(* SceneLens model-asset scripts: the placeholder writer                   *)
(* (create_placeholder_models.py) and the validator (validate_models.py).  *)
(* Files are byte sequences on a small file system; every operation of the *)
(* two scripts is an action that reads or writes that file system.         *)
(***************************************************************************)
EXTENDS Integers, Sequences, FiniteSets, TLC

VARIABLES
    fs,         \* the two model files: name -> [kind, data]
    cfg,        \* model_config.json: [kind, value]
    last,       \* the operation that ran last: [op, path, input, meta, weights, result]
    prev,       \* the operation before it, its input dropped
    ncalls,     \* how many operations ran
    pc,         \* validator main: position
    idx,        \* validator main: index into its models list
    all_valid,  \* validator main: the all_valid local
    printed,    \* validator main: the report lines printed so far
    rc,         \* validator main: its return value (-1 while running)
    creator     \* creator main: [pc, success, rc]

vars == <<fs, cfg, last, prev, ncalls, pc, idx, all_valid, printed, rc, creator>>

\* ------------------------------------------------------------------ bounds
MaxBuf == 14        \* longest file content the file system starts with
MaxMeta == 2        \* longest metadata record the writer is given
TargetSize == 14    \* the smaller target_size (the audio model's), scaled down
MaxCalls == 3       \* operations per run of the codec and config models

\* --------------------------------------------------------------- constants
MOBILENET_FILE == "mobilenet_v3_small_quant.tflite"
YAMNET_FILE == "yamnet_lite_quant.tflite"
CONFIG_FILE == "model_config.json"
TFL3 == <<84, 70, 76, 51>>
SUPPORTED_VERSION == 3
HEADER_VERSION == 3
MB == 1024 * 1024

Min(a, b) == IF a < b THEN a ELSE b
Max(a, b) == IF a > b THEN a ELSE b

\* ------------------------------------------------------------------ struct
\* struct.pack('<I', n): 4 bytes, least significant first.
struct_pack_I_big_endian(n) ==
    << (n \div 16777216) % 256, (n \div 65536) % 256, (n \div 256) % 256, n % 256 >>

struct_pack_I(n) ==
    << n % 256, (n \div 256) % 256, (n \div 65536) % 256, (n \div 16777216) % 256 >>

\* struct.unpack('<I', b)[0]: struct.error unless b holds exactly 4 bytes.
struct_unpack_I_big_endian(b) ==
    IF Len(b) # 4
    THEN [exc |-> "struct.error", val |-> 0]
    ELSE [exc |-> "none",
          val |-> b[4] + 256 * b[3] + 65536 * b[2] + 16777216 * b[1]]

\* int.from_bytes(b, 'little') in its place: a short buffer is no error.
struct_unpack_I_lenient(b) ==
    [exc |-> "none",
     val |-> (IF Len(b) >= 1 THEN b[1] ELSE 0) + 256 * (IF Len(b) >= 2 THEN b[2] ELSE 0)
             + 65536 * (IF Len(b) >= 3 THEN b[3] ELSE 0)
             + 16777216 * (IF Len(b) >= 4 THEN b[4] ELSE 0)]

struct_unpack_I(b) ==
    IF Len(b) # 4
    THEN [exc |-> "struct.error", val |-> 0]
    ELSE [exc |-> "none",
          val |-> b[1] + 256 * b[2] + 65536 * b[3] + 16777216 * b[4]]

\* ------------------------------------------------------------ file objects
\* A file: its leading bytes (data) and the count of the bytes after them
\* (tail), whose values nothing reads.
AbsentFile == [kind |-> "absent", data |-> <<>>, tail |-> 0]
UnreadableFile == [kind |-> "unreadable", data |-> <<>>, tail |-> 0]
RegularFile(bytes) == [kind |-> "file", data |-> bytes, tail |-> 0]
SizedFile(bytes, n) == [kind |-> "file", data |-> bytes, tail |-> n]

\* os.path.exists(filepath)
os_path_exists(f) == f.kind # "absent"

\* open(filepath, 'rb'): a fresh handle at position 0, or the OS error.
open_rb(f) ==
    IF f.kind = "file"
    THEN [exc |-> "none", data |-> f.data, tail |-> f.tail, pos |-> 0]
    ELSE [exc |-> "PermissionError", data |-> <<>>, tail |-> 0, pos |-> 0]

\* f.read(n): the next n bytes, fewer at the end of the file.
f_read(h, n) ==
    LET stop == Min(h.pos + n, Len(h.data))
    IN [bytes |-> SubSeq(h.data, h.pos + 1, stop),
        h |-> [h EXCEPT !.pos = stop]]

\* f.seek(0, 2); f.tell()
f_seek_end_tell(h) == Len(h.data) + h.tail

\* The file as validate_tflite_file leaves it: opened 'rb', it is not written.
file_after_truncating_open(f) ==
    IF f.kind = "file" THEN RegularFile(<<>>) ELSE f

file_after_validate(f) == f

\* f"{size / (1024*1024):.2f}": the hundredths of a MB printed, round-half-even
\* (size * 100 / 2^20 is exact in binary floating point for the sizes here).
format_2f_MB(size) ==
    LET q == (size * 100) \div MB
        r == (size * 100) % MB
    IN IF 2 * r > MB \/ (2 * r = MB /\ q % 2 = 1) THEN q + 1 ELSE q

\* ----------------------------------------------------------------- reports
\* A (valid, message) pair. The message is kept as its kind (tag) and the
\* values interpolated into it (path: the file or model it names; text: the
\* key or exception it names); raised marks an exception leaving the function.
Report(ok, tag, path, bytes, num, text) ==
    [ok |-> ok, tag |-> tag, path |-> path, bytes |-> bytes, num |-> num,
     text |-> text, raised |-> FALSE]

Raised(exc) ==
    [ok |-> FALSE, tag |-> "Raised", path |-> "", bytes |-> <<>>, num |-> 0,
     text |-> exc, raised |-> TRUE]

NoReport == Report(FALSE, "none", "", <<>>, 0, "")

\* `except Exception`: every exception class the bodies below can raise is one.
ExceptionClasses ==
    {"struct.error", "PermissionError", "TypeError", "KeyError", "JSONDecodeError"}

except_OSError(exc) == exc \in {"PermissionError"}

except_Exception(exc) == exc \in ExceptionClasses

\* ---------------------------------------------------- validate_tflite_file
\* magic != b'TFL3'
magic_mismatch_first_three(magic) == SubSeq(magic, 1, Min(3, Len(magic))) # <<84, 70, 76>>

magic_mismatch(magic) == magic # TFL3

\* version != 3
version_mismatch_upper_bound(version) == version > SUPPORTED_VERSION

version_mismatch(version) == version # SUPPORTED_VERSION

\* The body of the try block: [exc, ret].
validate_try_body(f) ==
    LET h0 == open_rb(f)
        r1 == f_read(h0, 4)
        magic == r1.bytes
        r2 == f_read(r1.h, 4)
        u == struct_unpack_I(r2.bytes)
        size == f_seek_end_tell(r2.h)
    IN IF h0.exc # "none" THEN [exc |-> h0.exc, ret |-> NoReport]
       ELSE IF magic_mismatch(magic)
       THEN [exc |-> "none", ret |-> Report(FALSE, "BadMagic", "", magic, 0, "")]
       ELSE IF u.exc # "none" THEN [exc |-> u.exc, ret |-> NoReport]
       ELSE IF version_mismatch(u.val)
       THEN [exc |-> "none",
             ret |-> Report(FALSE, "UnsupportedVersion", "", <<>>, u.val, "")]
       ELSE [exc |-> "none",
             ret |-> Report(TRUE, "Valid", "", <<>>, format_2f_MB(size), "")]

validate_tflite_file(path, f) ==
    IF ~os_path_exists(f)
    THEN Report(FALSE, "NotFound", path, <<>>, 0, "")
    ELSE LET body == validate_try_body(f)
         IN IF body.exc = "none" THEN body.ret
            ELSE IF except_Exception(body.exc)
            THEN Report(FALSE, "ReadError", "", <<>>, 0, body.exc)
            ELSE Raised(body.exc)

\* ------------------------------------------------ create_placeholder_models
\* create_tflite_header()
create_tflite_header == TFL3 \o struct_pack_I(HEADER_VERSION)

\* data = header; data += pack(len(metadata_bytes)); data += metadata_bytes
header_and_metadata_len_of_data(metadata_bytes) ==
    create_tflite_header \o struct_pack_I(Len(create_tflite_header)) \o metadata_bytes

header_and_metadata(metadata_bytes) ==
    create_tflite_header \o struct_pack_I(Len(metadata_bytes)) \o metadata_bytes

\* remaining_size = target_size - len(data); range() of a negative is empty
remaining_size_from_header(target_size, metadata_bytes) ==
    target_size - Len(create_tflite_header) - Len(metadata_bytes)

remaining_size(target_size, metadata_bytes) ==
    target_size - Len(header_and_metadata(metadata_bytes))

\* weights = bytes([random.randint(0, 255) for _ in range(remaining_size)])
WeightBytes == {0, 255}
RandomWeights(n) == [1..Max(n, 0) -> WeightBytes]

\* The bytes written to the model file.
placeholder_data(metadata_bytes, weights) ==
    header_and_metadata(metadata_bytes) \o weights

\* str(metadata).encode('utf-8'): the text "{'name': " of the writers' records,
\* cut to every length up to MaxMeta, and the empty record "{}".
MetaText == <<123, 39, 110, 97, 109, 101, 39, 58, 32>>
Metas ==
    {m \in {SubSeq(MetaText, 1, n) : n \in 0..Min(MaxMeta, Len(MetaText))}
               \cup {<<123, 125>>} : Len(m) <= MaxMeta}

\* -------------------------------------------------------- the codec model
ModelFiles == <<MOBILENET_FILE, YAMNET_FILE>>
FileNames == {MOBILENET_FILE, YAMNET_FILE}

NoOp == [op |-> "none", path |-> "", input |-> AbsentFile, meta |-> <<>>,
         weights |-> <<>>, result |-> NoReport]
\* An operation as remembered once another has run: without the file it read.
Summary(e) == [e EXCEPT !.input = AbsentFile]

\* File contents the file system may start with: a magic, a version field, a
\* metadata_length field and filler, cut to every length up to MaxBuf.
Magics == {TFL3, <<84, 70, 76, 50>>, <<51, 76, 70, 84>>, <<0, 70, 76, 51>>}
VersionFields == [1..4 -> {0, 3}]
LengthFields == {<<0, 0, 0, 0>>, <<2, 0, 0, 0>>, <<5, 0, 0, 0>>,
                 <<255, 255, 255, 255>>}
Filler == [i \in 1..Max(MaxBuf - 12, 0) |-> 65]
Buffers ==
    {SubSeq(m \o v \o l \o Filler, 1, n) :
        m \in Magics, v \in VersionFields, l \in LengthFields, n \in 0..MaxBuf}
CodecFiles == {AbsentFile, UnreadableFile} \cup {RegularFile(b) : b \in Buffers}

CreatorIdle == [pc |-> "idle", success |-> TRUE, rc |-> -1]

MainIdle ==
    /\ pc = "idle" /\ idx = 1 /\ all_valid = TRUE /\ printed = <<>> /\ rc = -1
    /\ creator = CreatorIdle

InitCodec ==
    /\ \E f \in CodecFiles : fs = [p \in FileNames |-> IF p = MOBILENET_FILE THEN f ELSE AbsentFile]
    /\ cfg = [kind |-> "absent"]
    /\ last = NoOp /\ prev = Summary(NoOp) /\ ncalls = 0
    /\ MainIdle

\* A call of validate_tflite_file(path).
ValidateFile(path) ==
    /\ ncalls < MaxCalls
    /\ last' = [op |-> "validate", path |-> path, input |-> fs[path],
                meta |-> <<>>, weights |-> <<>>,
                result |-> validate_tflite_file(path, fs[path])]
    /\ prev' = Summary(last)
    /\ fs' = [fs EXCEPT ![path] = file_after_validate(fs[path])]
    /\ ncalls' = ncalls + 1
    /\ UNCHANGED <<cfg, pc, idx, all_valid, printed, rc, creator>>

\* open(name, 'wb'); f.write(data): the OS error when the file cannot be opened.
write_wb(f, data) ==
    IF f.kind = "unreadable"
    THEN [exc |-> "PermissionError", file |-> f]
    ELSE [exc |-> "none", file |-> RegularFile(data)]

\* create_mobilenet_placeholder / create_yamnet_placeholder: they differ in
\* the file name, the metadata and the target size only.
create_placeholder(path, target_size) ==
    /\ ncalls < MaxCalls
    /\ \E metadata_bytes \in Metas :
         \E weights \in RandomWeights(remaining_size(target_size, metadata_bytes)) :
            LET w == write_wb(fs[path], placeholder_data(metadata_bytes, weights))
            IN /\ fs' = [fs EXCEPT ![path] = w.file]
               /\ last' = [op |-> "create", path |-> path, input |-> AbsentFile,
                           meta |-> metadata_bytes, weights |-> weights,
                           result |-> IF w.exc = "none"
                                      THEN Report(TRUE, "Created", path, <<>>,
                                                  format_2f_MB(Len(w.file.data)), "")
                                      ELSE Raised(w.exc)]
    /\ prev' = Summary(last)
    /\ ncalls' = ncalls + 1
    /\ UNCHANGED <<cfg, pc, idx, all_valid, printed, rc, creator>>

\* target_size: 3 MB for the image model, 2 MB for the audio model; scaled
\* down, the image model's stays the larger.
mobilenet_target_size == TargetSize + 1
yamnet_target_size == TargetSize

create_mobilenet_placeholder ==
    create_placeholder(MOBILENET_FILE, mobilenet_target_size)

create_yamnet_placeholder == create_placeholder(YAMNET_FILE, yamnet_target_size)

\* Validation of arbitrary file contents, and of what the writer produces.
NextCodec ==
    \/ \E path \in FileNames : ValidateFile(path)
    \/ create_mobilenet_placeholder

SpecCodec == InitCodec /\ [][NextCodec]_vars

\* Both writers and the validator over a directory that starts without models.
InitWriter ==
    /\ fs \in [FileNames -> {AbsentFile, UnreadableFile, RegularFile(<<>>)}]
    /\ cfg = [kind |-> "absent"]
    /\ last = NoOp /\ prev = Summary(NoOp) /\ ncalls = 0
    /\ MainIdle

NextWriter ==
    \/ create_mobilenet_placeholder
    \/ create_yamnet_placeholder
    \/ \E path \in FileNames : ValidateFile(path)

SpecWriter == InitWriter /\ [][NextWriter]_vars

\* ---------------------------------------------------- validate_model_config
\* The parsed descriptor. A JSON value is an object, a list or a number; its
\* keys are the keys of the object or the strings in the list.
required_models == <<"mobilenet_v3_small", "yamnet_lite">>
required_keys_without_output_shape == <<"filename", "type", "input_shape">>

required_keys == <<"filename", "type", "input_shape", "output_shape">>

Range(s) == {s[i] : i \in 1..Len(s)}

\* `key in value`: TypeError on a number.
py_in(key, v) ==
    IF v.t = "num" THEN [exc |-> "TypeError", val |-> FALSE]
    ELSE [exc |-> "none", val |-> key \in v.keys]

\* config['models'] and models[model_name]: TypeError on a list.
getitem_models(config) ==
    IF config.t = "obj" THEN [exc |-> "none", val |-> config.models]
    ELSE [exc |-> "TypeError", val |-> config.models]

getitem_entry(models, model_name) ==
    IF models.t = "obj" THEN [exc |-> "none", val |-> models.entry[model_name]]
    ELSE [exc |-> "TypeError", val |-> models.entry[model_name]]

Passed == [exc |-> "none", returned |-> FALSE, ret |-> NoReport]
Threw(exc) == [exc |-> exc, returned |-> FALSE, ret |-> NoReport]
Returned(r) == [exc |-> "none", returned |-> TRUE, ret |-> r]

\* for key in required_keys: if key not in model_config: return ...
RECURSIVE check_keys(_, _, _)
check_keys(model_config, model_name, k) ==
    IF k > Len(required_keys) THEN Passed
    ELSE LET key == required_keys[k]
             m == py_in(key, model_config)
         IN IF m.exc # "none" THEN Threw(m.exc)
            ELSE IF ~m.val
            THEN Returned(Report(FALSE, "MissingKey", model_name, <<>>, 0, key))
            ELSE check_keys(model_config, model_name, k + 1)

\* for model_name in required_models: ...
RECURSIVE check_models(_, _)
check_models(models, i) ==
    IF i > Len(required_models) THEN Passed
    ELSE LET model_name == required_models[i]
             m == py_in(model_name, models)
             g == getitem_entry(models, model_name)
             r == check_keys(g.val, model_name, 1)
         IN IF m.exc # "none" THEN Threw(m.exc)
            ELSE IF ~m.val
            THEN Returned(Report(FALSE, "MissingModel", model_name, <<>>, 0, ""))
            ELSE IF g.exc # "none" THEN Threw(g.exc)
            ELSE IF r.exc # "none" \/ r.returned THEN r
            ELSE check_models(models, i + 1)

\* The body of the try block.
config_try_body(c) ==
    LET config == c.value
        m == py_in("models", config)
        g == getitem_models(config)
        r == check_models(g.val, 1)
    IN IF c.kind = "unreadable" THEN Threw("PermissionError")
       ELSE IF c.kind = "badjson" THEN Threw("JSONDecodeError")
       ELSE IF m.exc # "none" THEN Threw(m.exc)
       ELSE IF ~m.val
       THEN Returned(Report(FALSE, "MissingModels", "", <<>>, 0, "models"))
       ELSE IF g.exc # "none" THEN Threw(g.exc)
       ELSE IF r.exc # "none" \/ r.returned THEN r
       ELSE Returned(Report(TRUE, "ValidConfig", "", <<>>, 0, ""))

validate_model_config(c) ==
    IF c.kind = "absent"
    THEN Report(FALSE, "ConfigNotFound", CONFIG_FILE, <<>>, 0, "")
    ELSE LET body == config_try_body(c)
         IN IF body.exc = "none" THEN body.ret
            ELSE IF body.exc = "JSONDecodeError"
            THEN Report(FALSE, "InvalidJSON", "", <<>>, 0, body.exc)
            ELSE IF except_Exception(body.exc)
            THEN Report(FALSE, "ConfigError", "", <<>>, 0, body.exc)
            ELSE Raised(body.exc)

\* ----------------------------------------------------- update_model_config
\* The descriptor text the writer stores: both models, eight keys each.
WrittenKeys_without_output_shape ==
    {"filename", "type", "input_shape", "input_type", "output_type",
     "preprocessing", "labels"}

WrittenKeys == {"filename", "type", "input_shape", "input_type", "output_shape",
                "output_type", "preprocessing", "labels"}
Entry(t, keys) == [t |-> t, keys |-> keys]
NoEntry == Entry("num", {})
Models(t, keys, e1, e2) ==
    [t |-> t, keys |-> keys,
     entry |-> [n \in Range(required_models) |->
                   IF n = required_models[1] THEN e1 ELSE e2]]
Config(t, keys, models) == [t |-> t, keys |-> keys, models |-> models]
NoModels == Models("num", {}, NoEntry, NoEntry)
NoConfig == Config("num", {}, NoModels)
JsonFile(value) == [kind |-> "json", value |-> value]
AbsentConfig == [kind |-> "absent", value |-> NoConfig]
UnreadableConfig == [kind |-> "unreadable", value |-> NoConfig]
BadJsonConfig == [kind |-> "badjson", value |-> NoConfig]

WrittenModels == {"mobilenet_v3_small", "yamnet_lite"}

written_config ==
    Config("obj", {"models"},
           Models("obj", WrittenModels,
                  Entry("obj", WrittenKeys), Entry("obj", WrittenKeys)))

\* open('model_config.json', 'w'); f.write(config)
write_config(c) ==
    IF c.kind = "unreadable"
    THEN [exc |-> "PermissionError", file |-> c]
    ELSE [exc |-> "none", file |-> JsonFile(written_config)]

\* ------------------------------------------------------- the config model
\* Descriptors the directory may start with: every subset of the required
\* keys per entry, entries and mappings of the wrong JSON type, missing ones.
AllRequiredKeys == {"filename", "type", "input_shape", "output_shape"}
Entries ==
    {Entry("obj", k) : k \in (SUBSET AllRequiredKeys) \cup {WrittenKeys}}
        \cup {Entry("list", AllRequiredKeys), Entry("num", {})}
ModelsValues ==
    {Models("obj", Range(required_models), e1, e2) : e1 \in Entries, e2 \in Entries}
        \cup {Models("obj", {required_models[1]}, e1, NoEntry) : e1 \in Entries}
        \cup {Models("obj", {required_models[2]}, NoEntry, e2) : e2 \in Entries}
        \cup {Models("obj", {}, NoEntry, NoEntry),
              Models("list", Range(required_models), NoEntry, NoEntry),
              Models("num", {}, NoEntry, NoEntry)}
ConfigValues ==
    {Config("obj", {"models"}, m) : m \in ModelsValues}
        \cup {Config("obj", {}, NoModels), Config("list", {"models"}, NoModels),
              Config("list", {}, NoModels), Config("num", {}, NoModels)}
ConfigFiles ==
    {AbsentConfig, UnreadableConfig, BadJsonConfig}
        \cup {JsonFile(v) : v \in ConfigValues}

NoFiles == [p \in FileNames |-> AbsentFile]

InitConfig ==
    /\ cfg \in ConfigFiles
    /\ fs = NoFiles
    /\ last = NoOp /\ prev = Summary(NoOp) /\ ncalls = 0
    /\ MainIdle

\* A call of validate_model_config().
ValidateConfig ==
    /\ ncalls < MaxCalls
    /\ last' = [NoOp EXCEPT !.op = "validate_config", !.path = CONFIG_FILE,
                            !.result = validate_model_config(cfg)]
    /\ prev' = Summary(last)
    /\ ncalls' = ncalls + 1
    /\ UNCHANGED <<fs, cfg, pc, idx, all_valid, printed, rc, creator>>

\* A call of update_model_config().
update_model_config ==
    /\ ncalls < MaxCalls
    /\ LET w == write_config(cfg)
       IN /\ cfg' = w.file
          /\ last' = [NoOp EXCEPT !.op = "update_config", !.path = CONFIG_FILE,
                         !.result = IF w.exc = "none"
                                    THEN Report(TRUE, "Updated", CONFIG_FILE, <<>>, 0, "")
                                    ELSE Raised(w.exc)]
    /\ prev' = Summary(last)
    /\ ncalls' = ncalls + 1
    /\ UNCHANGED <<fs, pc, idx, all_valid, printed, rc, creator>>

NextConfig == ValidateConfig \/ update_model_config

SpecConfig == InitConfig /\ [][NextConfig]_vars

\* ------------------------------------------------------- validator main()
\* if not valid: all_valid = False
all_valid_overwritten(av, valid) == valid

update_all_valid(av, valid) == IF ~valid THEN FALSE ELSE av

\* return 0 if all_valid else 1
exit_status(av) == IF av THEN 0 ELSE 1

Line(name, r) == [name |-> name, valid |-> r.ok, message |-> r]

\* all_valid = True; models = [...]
MainStart ==
    /\ pc = "idle"
    /\ pc' = "models" /\ idx' = 1 /\ all_valid' = TRUE /\ printed' = <<>>
    /\ UNCHANGED <<fs, cfg, last, prev, ncalls, rc, creator>>

\* One pass of `for model in models`; an exception out of the call ends main.
MainValidateModel ==
    /\ pc = "models"
    /\ LET model == ModelFiles[idx]
           r == validate_tflite_file(model, fs[model])
       IN IF r.raised
          THEN /\ pc' = "crashed"
               /\ UNCHANGED <<idx, all_valid, printed>>
          ELSE /\ printed' = Append(printed, Line(model, r))
               /\ all_valid' = update_all_valid(all_valid, r.ok)
               /\ idx' = idx + 1
               /\ pc' = IF idx = Len(ModelFiles) THEN "config" ELSE "models"
    /\ fs' = [fs EXCEPT ![ModelFiles[idx]] = file_after_validate(fs[ModelFiles[idx]])]
    /\ UNCHANGED <<cfg, last, prev, ncalls, rc, creator>>

\* valid, message = validate_model_config()
MainValidateConfig ==
    /\ pc = "config"
    /\ LET r == validate_model_config(cfg)
       IN IF r.raised
          THEN /\ pc' = "crashed"
               /\ UNCHANGED <<all_valid, printed>>
          ELSE /\ printed' = Append(printed, Line(CONFIG_FILE, r))
               /\ all_valid' = update_all_valid(all_valid, r.ok)
               /\ pc' = "return"
    /\ UNCHANGED <<fs, cfg, last, prev, ncalls, idx, rc, creator>>

\* the summary lines and `return 0 if all_valid else 1`
MainReturn ==
    /\ pc = "return"
    /\ rc' = exit_status(all_valid)
    /\ pc' = "done"
    /\ UNCHANGED <<fs, cfg, last, prev, ncalls, idx, all_valid, printed, creator>>

\* Directories the validator is run in.
MainFiles ==
    {AbsentFile, UnreadableFile, RegularFile(<<>>),
     RegularFile(<<84, 70, 76, 51, 3, 0>>),
     RegularFile(<<84, 70, 76, 50, 3, 0, 0, 0>>),
     RegularFile(<<84, 70, 76, 51, 2, 0, 0, 0>>),
     RegularFile(<<84, 70, 76, 51, 3, 0, 0, 0>>)}
        \cup {RegularFile(placeholder_data(m, [i \in 1..1 |-> 0])) : m \in Metas}
MainConfigs ==
    {AbsentConfig, UnreadableConfig, BadJsonConfig, JsonFile(written_config),
     JsonFile(Config("obj", {}, NoModels)), JsonFile(Config("num", {}, NoModels)),
     JsonFile(Config("obj", {"models"},
                     Models("obj", {required_models[1]},
                            Entry("obj", AllRequiredKeys), NoEntry))),
     JsonFile(Config("obj", {"models"},
                     Models("obj", Range(required_models),
                            Entry("obj", AllRequiredKeys),
                            Entry("obj", AllRequiredKeys \ {"output_shape"})))),
     JsonFile(Config("obj", {"models"},
                     Models("obj", Range(required_models),
                            Entry("obj", AllRequiredKeys),
                            Entry("obj", AllRequiredKeys))))}

Init ==
    /\ fs \in [FileNames -> MainFiles]
    /\ cfg \in MainConfigs
    /\ last = NoOp /\ prev = Summary(NoOp) /\ ncalls = 0
    /\ MainIdle

Next ==
    \/ MainStart
    \/ MainValidateModel
    \/ MainValidateConfig
    \/ MainReturn

Spec == Init /\ [][Next]_vars

\* ---------------------------------------------------------- creator main()
\* str(metadata).encode('utf-8') of the two writers:
\* {'name': 'MobileNetV3-Small Quantized', 'version': '1.0',
\*  'input_shape': [1, 224, 224, 3], 'output_shape': [1, 10], 'quantized': True}
MOBILENET_METADATA ==
    <<123, 39, 110, 97, 109, 101, 39, 58, 32, 39, 77, 111, 98, 105, 108, 101,
      78, 101, 116, 86, 51, 45, 83, 109, 97, 108, 108, 32, 81, 117, 97, 110,
      116, 105, 122, 101, 100, 39, 44, 32, 39, 118, 101, 114, 115, 105, 111, 110,
      39, 58, 32, 39, 49, 46, 48, 39, 44, 32, 39, 105, 110, 112, 117, 116,
      95, 115, 104, 97, 112, 101, 39, 58, 32, 91, 49, 44, 32, 50, 50, 52,
      44, 32, 50, 50, 52, 44, 32, 51, 93, 44, 32, 39, 111, 117, 116, 112,
      117, 116, 95, 115, 104, 97, 112, 101, 39, 58, 32, 91, 49, 44, 32, 49,
      48, 93, 44, 32, 39, 113, 117, 97, 110, 116, 105, 122, 101, 100, 39, 58,
      32, 84, 114, 117, 101, 125>>
\* {'name': 'YAMNet-Lite Quantized', 'version': '1.0',
\*  'input_shape': [1, 16000], 'output_shape': [1, 9], 'quantized': True}
YAMNET_METADATA ==
    <<123, 39, 110, 97, 109, 101, 39, 58, 32, 39, 89, 65, 77, 78, 101, 116,
      45, 76, 105, 116, 101, 32, 81, 117, 97, 110, 116, 105, 122, 101, 100, 39,
      44, 32, 39, 118, 101, 114, 115, 105, 111, 110, 39, 58, 32, 39, 49, 46,
      48, 39, 44, 32, 39, 105, 110, 112, 117, 116, 95, 115, 104, 97, 112, 101,
      39, 58, 32, 91, 49, 44, 32, 49, 54, 48, 48, 48, 93, 44, 32, 39,
      111, 117, 116, 112, 117, 116, 95, 115, 104, 97, 112, 101, 39, 58, 32, 91,
      49, 44, 32, 57, 93, 44, 32, 39, 113, 117, 97, 110, 116, 105, 122, 101,
      100, 39, 58, 32, 84, 114, 117, 101, 125>>

\* target_size = 3 * 1024 * 1024 and 2 * 1024 * 1024
MOBILENET_TARGET_SIZE == 3 * 1024 * 1024
YAMNET_TARGET_SIZE == 2 * 1024 * 1024

\* open('mobilenet_v3_small_quant.tflite', 'wb'), open('yamnet_lite_quant.tflite', 'wb')
CREATED_MOBILENET_FILE == "mobilenet_v3_small_quant.tflite"
CREATED_YAMNET_FILE == "yamnet_lite_quant.tflite"

\* data at full size: the header and the metadata record byte by byte, the
\* random weights after them by their count, range(remaining_size).
placeholder_file(metadata_bytes, target_size) ==
    SizedFile(header_and_metadata(metadata_bytes),
              Max(remaining_size(target_size, metadata_bytes), 0))

\* with open(name, 'wb') as f: f.write(data), in a directory that may not
\* hold the name the validator reads.
write_model_file(files, name, file) ==
    IF name \in DOMAIN files /\ files[name].kind = "unreadable"
    THEN [exc |-> "PermissionError", files |-> files]
    ELSE [exc |-> "none",
          files |-> [p \in DOMAIN files |-> IF p = name THEN file ELSE files[p]]]

\* `return True` of the three steps, and `if not ...: success = False`
step_returns == TRUE
update_success(success, ret) == IF ~ret THEN FALSE ELSE success

\* return 1 after "Failed to create some models", else return 0
creator_exit_status(success) == IF success THEN 0 ELSE 1

ValidatorVars == <<pc, idx, all_valid, printed, rc>>

\* success = True
CreatorStart ==
    /\ creator.pc = "idle" /\ pc = "idle"
    /\ creator' = [pc |-> "mobilenet", success |-> TRUE, rc |-> -1]
    /\ UNCHANGED <<fs, cfg, last, prev, ncalls, ValidatorVars>>

\* One placeholder step of main; an exception out of it ends main.
CreatorPlaceholder(at, name, metadata_bytes, target_size, then) ==
    /\ creator.pc = at
    /\ LET w == write_model_file(fs, name, placeholder_file(metadata_bytes, target_size))
       IN /\ fs' = w.files
          /\ creator' = IF w.exc # "none"
                        THEN [creator EXCEPT !.pc = "crashed"]
                        ELSE [creator EXCEPT
                                 !.pc = then,
                                 !.success = update_success(creator.success, step_returns)]
    /\ UNCHANGED <<cfg, last, prev, ncalls, ValidatorVars>>

\* if not create_mobilenet_placeholder(): success = False
CreatorMobilenet ==
    CreatorPlaceholder("mobilenet", CREATED_MOBILENET_FILE, MOBILENET_METADATA,
                       MOBILENET_TARGET_SIZE, "yamnet")

\* if not create_yamnet_placeholder(): success = False
CreatorYamnet ==
    CreatorPlaceholder("yamnet", CREATED_YAMNET_FILE, YAMNET_METADATA,
                       YAMNET_TARGET_SIZE, "config")

\* if not update_model_config(): success = False
CreatorConfig ==
    /\ creator.pc = "config"
    /\ LET w == write_config(cfg)
       IN /\ cfg' = w.file
          /\ creator' = IF w.exc # "none"
                        THEN [creator EXCEPT !.pc = "crashed"]
                        ELSE [creator EXCEPT
                                 !.pc = "return",
                                 !.success = update_success(creator.success, step_returns)]
    /\ UNCHANGED <<fs, last, prev, ncalls, ValidatorVars>>

\* if success: ... else: return 1; return 0
CreatorReturn ==
    /\ creator.pc = "return"
    /\ creator' = [creator EXCEPT !.pc = "done",
                                  !.rc = creator_exit_status(creator.success)]
    /\ UNCHANGED <<fs, cfg, last, prev, ncalls, ValidatorVars>>

\* The validator run that follows the creator's, in the same directory.
MainStartAfterCreator ==
    /\ creator.pc \in {"done", "crashed"}
    /\ MainStart

\* The creator, then the validator, from any directory.
InitPipeline ==
    /\ fs \in [FileNames -> MainFiles]
    /\ cfg \in MainConfigs
    /\ last = NoOp /\ prev = Summary(NoOp) /\ ncalls = 0
    /\ MainIdle

NextPipeline ==
    \/ CreatorStart
    \/ CreatorMobilenet
    \/ CreatorYamnet
    \/ CreatorConfig
    \/ CreatorReturn
    \/ MainStartAfterCreator
    \/ MainValidateModel
    \/ MainValidateConfig
    \/ MainReturn

SpecPipeline == InitPipeline /\ [][NextPipeline]_vars

\* ================================================================ claims
\* The file the last validation read, and what it returned.
Validated == last.op = "validate"
ValidatedBytes == last.op = "validate" /\ last.input.kind = "file"
StartsWithMagic(d) == Len(d) >= 4 /\ SubSeq(d, 1, 4) = <<84, 70, 76, 51>>
\* The version field of a buffer of 8 bytes or more, read little-endian.
VersionFieldLE(d) == d[5] + 256 * d[6] + 65536 * d[7] + 16777216 * d[8]
\* The metadata_length field of a buffer of 12 bytes or more, little-endian.
LengthFieldLE(d) == d[9] + 256 * d[10] + 65536 * d[11] + 16777216 * d[12]
\* A validation that directly follows a successful write of the same file.
ValidatedAfterCreate ==
    /\ last.op = "validate" /\ prev.op = "create"
    /\ prev.path = last.path /\ ~prev.result.raised

\* C1 (as stated): decoding the written buffer yields back the metadata and
\* the payload, so the report of a written file determines both: no other
\* metadata and payload the writer can produce give the same report.
C1_RoundTripYieldsInputs ==
    ValidatedAfterCreate =>
        \A m \in Metas : \A w \in RandomWeights(remaining_size(mobilenet_target_size, m)) :
            validate_tflite_file(last.path, RegularFile(placeholder_data(m, w)))
                = last.result
            => (m = prev.meta /\ w = prev.weights)

\* C1 (amended): validating the file written from any metadata and payload
\* succeeds, which it does only on magic TFL3 and version 3, and reports the
\* size 12 + len(metadata) + len(payload); the report holds neither the
\* metadata nor the payload.
C1_RoundTripValidates ==
    ValidatedAfterCreate =>
        /\ last.input.kind = "file"
        /\ last.result = Report(TRUE, "Valid", "", <<>>,
               format_2f_MB(12 + Len(prev.meta) + Len(prev.weights)), "")

C1_Witness ==
    /\ ValidatedAfterCreate /\ last.result.ok
    /\ Len(prev.meta) > 0 /\ Len(prev.weights) > 0

\* C2: validate_tflite_file never raises; on an absent, empty, short,
\* wrong-magic, wrong-version or unreadable file it returns ok = false with a
\* reason.
FailureTags == {"NotFound", "BadMagic", "UnsupportedVersion", "ReadError"}
BadFileState(f) ==
    \/ f.kind \in {"absent", "unreadable"}
    \/ Len(f.data) < 8
    \/ ~StartsWithMagic(f.data)
    \/ VersionFieldLE(f.data) # 3

C2_ValidateNeverRaises ==
    Validated =>
        /\ ~last.result.raised
        /\ last.result.ok \in BOOLEAN
        /\ last.result.ok = FALSE => last.result.tag \in FailureTags
        /\ BadFileState(last.input) => last.result.ok = FALSE

C2_Witness ==
    /\ ValidatedBytes /\ StartsWithMagic(last.input.data) /\ Len(last.input.data) = 6
    /\ last.result.tag = "ReadError" /\ ~last.result.raised

\* C3 (as stated): every buffer shorter than 8 bytes fails as a truncated
\* header (the error of reading the version field), before the magic check.
TruncatedHeader(r) == ~r.ok /\ r.tag = "ReadError" /\ r.text = "struct.error"

C3_TruncatedHeaderFirst ==
    (ValidatedBytes /\ Len(last.input.data) < 8) => TruncatedHeader(last.result)

\* C3 (amended): every buffer shorter than 8 bytes fails; the magic check
\* comes first, so the outcome is BadMagic with the bytes read unless the
\* buffer starts with TFL3, and only then (lengths 4 to 7) the truncated
\* header error.
C3_ShortBufferFails ==
    (ValidatedBytes /\ Len(last.input.data) < 8) =>
        /\ ~last.result.ok /\ ~last.result.raised
        /\ IF StartsWithMagic(last.input.data)
           THEN TruncatedHeader(last.result)
           ELSE /\ last.result.tag = "BadMagic"
                /\ last.result.bytes
                     = SubSeq(last.input.data, 1, Min(4, Len(last.input.data)))

C3_Witness ==
    /\ ValidatedBytes /\ Len(last.input.data) = 7
    /\ StartsWithMagic(last.input.data) /\ TruncatedHeader(last.result)

\* C4: a buffer of 4 bytes or more whose first 4 bytes are not TFL3 fails
\* with BadMagic reporting those 4 bytes, whatever follows.
C4_BadMagic ==
    (ValidatedBytes /\ Len(last.input.data) >= 4
        /\ SubSeq(last.input.data, 1, 4) # <<84, 70, 76, 51>>) =>
            /\ ~last.result.ok
            /\ last.result.tag = "BadMagic"
            /\ last.result.bytes = SubSeq(last.input.data, 1, 4)

C4_Witness ==
    /\ ValidatedBytes /\ Len(last.input.data) >= 12
    /\ SubSeq(last.input.data, 1, 3) = <<84, 70, 76>>
    /\ SubSeq(last.input.data, 5, 8) = <<3, 0, 0, 0>>
    /\ last.result.tag = "BadMagic"

\* C5: a buffer that starts with TFL3 and a little-endian version other than
\* 3 fails with UnsupportedVersion reporting the value, whatever follows; only
\* version 3 is accepted.
C5_UnsupportedVersion ==
    (ValidatedBytes /\ StartsWithMagic(last.input.data) /\ Len(last.input.data) >= 8) =>
        /\ VersionFieldLE(last.input.data) # 3 =>
              /\ ~last.result.ok
              /\ last.result.tag = "UnsupportedVersion"
              /\ last.result.num = VersionFieldLE(last.input.data)
        /\ VersionFieldLE(last.input.data) = 3 => last.result.tag # "UnsupportedVersion"
        /\ last.result.ok => SubSeq(last.input.data, 5, 8) = <<3, 0, 0, 0>>

C5_Witness ==
    /\ ValidatedBytes /\ StartsWithMagic(last.input.data)
    /\ Len(last.input.data) = 14
    /\ SubSeq(last.input.data, 5, 12) = <<0, 0, 0, 3, 2, 0, 0, 0>>
    /\ last.result.tag = "UnsupportedVersion" /\ last.result.num = 50331648

\* C6 (as stated): with magic and version right, a declared metadata_length
\* that runs past the end of the buffer is never reported valid.
GoodHeader(d) == StartsWithMagic(d) /\ Len(d) >= 8 /\ SubSeq(d, 5, 8) = <<3, 0, 0, 0>>

C6_TruncatedMetadataRejected ==
    (ValidatedBytes /\ GoodHeader(last.input.data) /\ Len(last.input.data) >= 12
        /\ 8 + LengthFieldLE(last.input.data) > Len(last.input.data))
    => ~last.result.ok

\* C6 (amended): with magic and version right (8 bytes or more), validation
\* succeeds and reports the file size whatever metadata_length declares: the
\* field is never read, so a declared length past the end of the file is
\* reported valid, as is 8 + metadata_length = total length.
C6_GoodHeaderValid ==
    (ValidatedBytes /\ GoodHeader(last.input.data)) =>
        last.result = Report(TRUE, "Valid", "", <<>>,
                             format_2f_MB(Len(last.input.data)), "")

C6_Witness ==
    /\ ValidatedBytes /\ GoodHeader(last.input.data) /\ Len(last.input.data) = 12
    /\ 8 + LengthFieldLE(last.input.data) > Len(last.input.data)
    /\ last.result.ok

\* C9: the written file is TFL3, version 3 as 4 little-endian bytes, the
\* metadata byte count as 4 little-endian bytes, the metadata, the payload.
C9_EncodedLayout ==
    (last.op = "create" /\ ~last.result.raised) =>
        LET d == fs[last.path].data
            n == Len(last.meta)
        IN /\ fs[last.path].kind = "file"
           /\ Len(d) = 12 + n + Len(last.weights)
           /\ SubSeq(d, 1, 4) = <<84, 70, 76, 51>>
           /\ SubSeq(d, 5, 8) = <<3, 0, 0, 0>>
           /\ LengthFieldLE(d) = n
           /\ SubSeq(d, 13, 12 + n) = last.meta
           /\ SubSeq(d, 13 + n, Len(d)) = last.weights

C9_Witness ==
    /\ last.op = "create" /\ ~last.result.raised /\ last.path = YAMNET_FILE
    /\ Len(last.meta) > 0 /\ Len(last.weights) > 0
    /\ fs[last.path].kind = "file"

C7_BatchValidation ==
    /\ pc # "crashed"
    /\ pc \in {"models", "config", "return"} => ENABLED Next
    /\ pc \in {"return", "done"} =>
          /\ Len(printed) = 3
          /\ printed[1].name = MOBILENET_FILE
          /\ printed[2].name = YAMNET_FILE
          /\ printed[3].name = CONFIG_FILE
    /\ pc = "done" =>
          /\ rc \in {0, 1}
          /\ rc = 0 <=> \A i \in 1..3 : printed[i].valid
          /\ rc = 0 <=>
                /\ fs[MOBILENET_FILE].kind = "file"
                /\ GoodHeader(fs[MOBILENET_FILE].data)
                /\ fs[YAMNET_FILE].kind = "file"
                /\ GoodHeader(fs[YAMNET_FILE].data)
                /\ cfg.kind = "json"
                /\ printed[3].message.tag = "ValidConfig"

C7_Witness ==
    /\ pc = "done" /\ rc = 1 /\ Len(printed) = 3
    /\ ~printed[1].valid /\ printed[2].valid /\ printed[3].valid

\* C8 (as stated): whenever the entry of a required model lacks a required
\* key, validation fails with a reason naming that model and that key.
ConfigValidated == last.op = "validate_config" /\ cfg.kind = "json"
HasEntry(model_name) ==
    /\ cfg.value.t = "obj" /\ "models" \in cfg.value.keys
    /\ cfg.value.models.t = "obj" /\ model_name \in cfg.value.models.keys
    /\ cfg.value.models.entry[model_name].t = "obj"
EntryKeys(model_name) == cfg.value.models.entry[model_name].keys
Names(r, model_name, key) ==
    ~r.ok /\ r.tag = "MissingKey" /\ r.path = model_name /\ r.text = key

C8_NamesEveryMissingKey ==
    ConfigValidated =>
        \A model_name \in {"mobilenet_v3_small", "yamnet_lite"} :
            \A key \in AllRequiredKeys :
                (HasEntry(model_name) /\ key \notin EntryKeys(model_name))
                => Names(last.result, model_name, key)

\* C8 (amended): a descriptor whose entry for a required model lacks a
\* required key fails validation; the reason names the first missing item in
\* checking order (mobilenet_v3_small before yamnet_lite, keys in the order
\* filename, type, input_shape, output_shape), so it names that model and key
\* exactly when no earlier entry is missing or incomplete and no earlier key
\* of the entry is missing. ok is reported only when 'models', both entries
\* and all their required keys are present.
KeyOrder == <<"filename", "type", "input_shape", "output_shape">>
ModelOrder == <<"mobilenet_v3_small", "yamnet_lite">>
EarlierKeysPresent(model_name, k) ==
    \A j \in 1..(k - 1) : KeyOrder[j] \in EntryKeys(model_name)
EarlierModelsComplete(i) ==
    \A j \in 1..(i - 1) :
        /\ ModelOrder[j] \in cfg.value.models.keys
        /\ cfg.value.models.entry[ModelOrder[j]].t # "num"
        /\ AllRequiredKeys \subseteq cfg.value.models.entry[ModelOrder[j]].keys

C8_ConfigValidation ==
    (last.op = "validate_config") =>
        /\ ~last.result.raised
        /\ cfg.kind = "json" =>
             \A i \in 1..2 : \A k \in 1..4 :
                (HasEntry(ModelOrder[i]) /\ KeyOrder[k] \notin EntryKeys(ModelOrder[i]))
                => /\ ~last.result.ok
                   /\ Names(last.result, ModelOrder[i], KeyOrder[k])
                        <=> (EarlierModelsComplete(i) /\ EarlierKeysPresent(ModelOrder[i], k))
        /\ last.result.ok =>
             /\ cfg.kind = "json" /\ cfg.value.t = "obj" /\ "models" \in cfg.value.keys
             /\ cfg.value.models.t = "obj"
             /\ \A n \in {"mobilenet_v3_small", "yamnet_lite"} :
                   /\ n \in cfg.value.models.keys
                   /\ AllRequiredKeys \subseteq cfg.value.models.entry[n].keys

C8_Witness ==
    /\ ConfigValidated /\ HasEntry("mobilenet_v3_small") /\ HasEntry("yamnet_lite")
    /\ EntryKeys("mobilenet_v3_small") = AllRequiredKeys
    /\ EntryKeys("yamnet_lite") = AllRequiredKeys \ {"output_shape"}
    /\ Names(last.result, "yamnet_lite", "output_shape")

\* C11: each placeholder file is the header, the metadata record and padding
\* up to the target size exactly: 3 * 1024 * 1024 bytes for the image model,
\* 2 * 1024 * 1024 for the audio model, the padding being target - 12 -
\* len(metadata) >= 0 bytes; the validator reports them valid, 3.00 MB and
\* 2.00 MB.
PaddedTo(f, metadata_bytes, size) ==
    /\ f.kind = "file"
    /\ Len(f.data) + f.tail = size
    /\ Len(f.data) = 12 + Len(metadata_bytes)
    /\ SubSeq(f.data, 13, Len(f.data)) = metadata_bytes
    /\ f.tail = size - 12 - Len(metadata_bytes)
    /\ f.tail >= 0
ValidWithSize(r, hundredths) ==
    r = Report(TRUE, "Valid", "", <<>>, hundredths, "")

C11_PlaceholderSize ==
    /\ creator.pc \in {"yamnet", "config", "return", "done"} =>
          /\ PaddedTo(fs[MOBILENET_FILE], MOBILENET_METADATA, 3145728)
          /\ Len(MOBILENET_METADATA) = 134
    /\ creator.pc \in {"config", "return", "done"} =>
          /\ PaddedTo(fs[YAMNET_FILE], YAMNET_METADATA, 2097152)
          /\ Len(YAMNET_METADATA) = 121
    /\ (creator.pc = "done" /\ pc \in {"return", "done"}) =>
          /\ ValidWithSize(printed[1].message, 300)
          /\ ValidWithSize(printed[2].message, 200)

C11_Witness ==
    /\ creator.pc = "done" /\ pc = "done"
    /\ fs[MOBILENET_FILE].tail = 3145582 /\ fs[YAMNET_FILE].tail = 2097019
    /\ printed[1].message.num = 300 /\ printed[2].message.num = 200

====
